---- MODULE Spec2Model ----
(***************************************************************************)
(* A model of self_update's GitHub backend: Updater::update                *)
(* (src/backends/github.rs) and the helpers it calls in src/lib.rs         *)
(* (prompt_ok, download_to_file_with_progress, extract_targz,              *)
(* replace_exe).                                                           *)
(*                                                                         *)
(* Strings are tuples of one-character strings, so that trimming, prefix   *)
(* stripping, substring search and byte-wise ordering are computed and     *)
(* not assumed.  File contents are tuples of bytes.  An optional value is  *)
(* a tuple of length 0 (None) or 1 (Some).                                 *)
(***************************************************************************)
EXTENDS Integers, Sequences, FiniteSets, TLC

VARIABLES
    cfg,          \* the Updater's fields (github.rs 162-171)
    pc,           \* the position of update() in its body
    result,       \* what update() returned, Running until it returns
    latest,       \* the parsed JSON body of the latest-release response
    latest_tag,   \* Option: the tag after trim_left_matches("v")
    target_asset, \* Option: the selected ReleaseAsset
    answer,       \* Option: the line read by prompt_ok
    installed,    \* the content of the file at bin_install_path
    tmp,          \* the scratch directory tmp_dir and the files in it
    replaceRet,   \* what replace_exe returned, "none" until it returns
    call,         \* contents of replace_exe's arguments when it was called
    installed0,   \* the content of bin_install_path when update() was called
    log,          \* the externally visible operations performed so far
    builder,      \* a Builder being configured (github.rs 42-51) and its build()
    dl,           \* one call of download_to_file_with_progress (lib.rs 143-170)
    bar           \* one call of display_dl_progress (lib.rs 115-130)

\* the state of the helpers that are also examined on their own
aux == << builder, dl, bar >>

vars == << cfg, pc, result, latest, latest_tag, target_asset, answer,
           installed, tmp, replaceRet, call, installed0, log, aux >>

----------------------------------------------------------------------------
(* Bounds of the model *)

\* the longest `assets` array a release response carries
MaxAssets == 2
\* the longest content of an executable file, in bytes
MaxFileLen == 2

----------------------------------------------------------------------------
(* Values *)

None == << >>
Some(x) == << x >>
IsSome(o) == Len(o) = 1
Get(o) == o[1]

\* the proper prefixes of a content: what an interrupted copy leaves behind
ProperPrefixes(c) == { SubSeq(c, 1, k) : k \in 0..(Len(c) - 1) }

\* byte value of the characters used in the model (ASCII)
Ord(c) ==
    CASE c = "\n" -> 10  [] c = " " -> 32  [] c = "-" -> 45  [] c = "." -> 46
      [] c = "0" -> 48   [] c = "1" -> 49  [] c = "2" -> 50  [] c = "9" -> 57
      [] c = "N" -> 78   [] c = "Y" -> 89
      [] c = "a" -> 97   [] c = "c" -> 99  [] c = "e" -> 101 [] c = "i" -> 105
      [] c = "l" -> 108  [] c = "m" -> 109 [] c = "n" -> 110 [] c = "p" -> 112
      [] c = "s" -> 115  [] c = "t" -> 116 [] c = "u" -> 117 [] c = "v" -> 118
      [] c = "w" -> 119  [] c = "x" -> 120 [] c = "y" -> 121 [] c = "z" -> 122

\* the results of update(): Ok(()) or Err of one of the crate's error kinds
Running == [kind |-> "Running", msg |-> ""]
Ok == [kind |-> "Ok", msg |-> ""]
Err(kind, msg) == [kind |-> kind, msg |-> msg]

----------------------------------------------------------------------------
(* String functions of the standard library, as the code uses them *)

\* str::trim_left_matches(c): repeatedly remove the prefix c  (github.rs 204)
RECURSIVE TrimLeftMatches(_, _)
TrimLeftMatches(s, c) ==
    IF s # << >> /\ Head(s) = c THEN TrimLeftMatches(Tail(s), c) ELSE s

\* a mutant of StrCmp: shorter strings order first, as a numeric-aware
\* comparison of equal-shaped versions would have it
RECURSIVE StrCmpByLength(_, _)
StrCmpByLength(a, b) ==
    IF Len(a) < Len(b) THEN "Less"
    ELSE IF Len(a) > Len(b) THEN "Greater"
    ELSE IF a = << >> THEN "Equal"
    ELSE IF Ord(Head(a)) < Ord(Head(b)) THEN "Less"
    ELSE IF Ord(Head(a)) > Ord(Head(b)) THEN "Greater"
    ELSE StrCmpByLength(Tail(a), Tail(b))

\* Ord::cmp on str: byte-wise lexicographic order  (github.rs 207)
RECURSIVE StrCmp(_, _)
StrCmp(a, b) ==
    IF a = << >> /\ b = << >> THEN "Equal"
    ELSE IF a = << >> THEN "Less"
    ELSE IF b = << >> THEN "Greater"
    ELSE IF Ord(Head(a)) < Ord(Head(b)) THEN "Less"
    ELSE IF Ord(Head(a)) > Ord(Head(b)) THEN "Greater"
    ELSE StrCmp(Tail(a), Tail(b))

\* str::starts_with
RECURSIVE StartsWith(_, _)
StartsWith(s, pat) ==
    IF pat = << >> THEN TRUE
    ELSE IF s = << >> THEN FALSE
    ELSE Head(s) = Head(pat) /\ StartsWith(Tail(s), Tail(pat))

\* a mutant of Contains: exact equality instead of substring search
ContainsExact(s, pat) == s = pat

\* str::contains: pat occurs in s at some offset  (github.rs 217)
RECURSIVE Contains(_, _)
Contains(s, pat) ==
    IF StartsWith(s, pat) THEN TRUE
    ELSE IF s = << >> THEN FALSE
    ELSE Contains(Tail(s), pat)

IsWhitespace(c) == c \in {" ", "\n"}

RECURSIVE TrimLeft(_)
TrimLeft(s) ==
    IF s # << >> /\ IsWhitespace(Head(s)) THEN TrimLeft(Tail(s)) ELSE s

RECURSIVE TrimRight(_)
TrimRight(s) ==
    IF s # << >> /\ IsWhitespace(s[Len(s)])
    THEN TrimRight(SubSeq(s, 1, Len(s) - 1)) ELSE s

\* str::trim  (lib.rs 103)
Trim(s) == TrimRight(TrimLeft(s))

LowerChar(c) == CASE c = "Y" -> "y" [] c = "N" -> "n" [] OTHER -> c

\* str::to_lowercase  (lib.rs 103)
ToLowercase(s) == [i \in 1..Len(s) |-> LowerChar(s[i])]

----------------------------------------------------------------------------
(* Inputs: the configuration, the release host's answers, the terminal *)

CurrentVersions ==
    { <<"1", ".", "0", ".", "0">>,
      <<"9", ".", "0", ".", "0">>,
      <<"v", "1", ".", "0", ".", "0">> }

Tags ==
    { <<"v", "1", ".", "2", ".", "0">>,
      <<"v", "1", "0", ".", "0", ".", "0">>,
      <<"v", "1", ".", "0", ".", "0">>,
      <<"v", "v", "9", ".", "1">>,
      <<"1", ".", "0">> }

Targets == { <<"l", "i", "n", "u", "x">>, <<"m", "a", "c">> }

NameAppLinux == <<"a", "p", "p", "-", "l", "i", "n", "u", "x">>
NameLinux == <<"l", "i", "n", "u", "x">>
NameAppMac == <<"a", "p", "p", "-", "m", "a", "c">>

\* the entries of a release's `assets` array: objects whose `name` and
\* `browser_download_url` are strings, or are missing
WellFormedEntries ==
    { [name |-> Some(NameAppLinux), browser_download_url |-> Some("url_app_linux")],
      [name |-> Some(NameLinux), browser_download_url |-> Some("url_linux")],
      [name |-> Some(NameAppMac), browser_download_url |-> Some("url_app_mac")] }

MalformedEntries ==
    { [name |-> None, browser_download_url |-> Some("url_nameless")],
      [name |-> Some(NameAppLinux), browser_download_url |-> None] }

AssetEntries == WellFormedEntries \cup MalformedEntries

AssetLists == UNION { [1..n -> AssetEntries] : n \in 0..MaxAssets }

\* the JSON bodies of the latest-release response: `tag_name` a string or
\* missing, `assets` an array or missing
Bodies ==
    { [tag_name |-> t, assets |-> a] :
        t \in {None} \cup { Some(x) : x \in Tags },
        a \in {None} \cup { Some(x) : x \in AssetLists } }

\* the lines a user may type at the prompt (the empty line is end of input)
InputLines ==
    { <<"Y", "\n">>, <<" ", "y", "\n">>,
      <<"n", "\n">>, <<"N", "\n">>, <<"\n">>, << >>,
      <<"y", "e", "s", "\n">> }

\* paths of files inside a release archive
Paths == { "myapp", "myapp/myapp" }

\* contents of the installed executable (bytes 0) and of a packaged one
\* (bytes 1), of 1 to MaxFileLen bytes
OldContents == { [i \in 1..n |-> 0] : n \in 1..MaxFileLen }
NewContents == { [i \in 1..n |-> 1] : n \in 1..MaxFileLen }

\* what a download may deliver: a gzipped tar packaging one executable, or
\* bytes that are no gzipped tar
Archives ==
    { [valid |-> TRUE, files |-> {[path |-> p, data |-> d]}] :
        p \in Paths, d \in NewContents }
NotAnArchive == [valid |-> FALSE, files |-> {}]

----------------------------------------------------------------------------
(* ReleaseAsset and asset selection *)

ParseOk(a) == [ok |-> TRUE, val |-> Some(a), msg |-> ""]
ParseErr(m) == [ok |-> FALSE, val |-> None, msg |-> m]

\* ReleaseAsset::from_asset  (github.rs 28-37)
FromAsset(asset) ==
    IF ~IsSome(asset.browser_download_url)
    THEN ParseErr("Asset missing browser_download_url")
    ELSE IF ~IsSome(asset.name)
    THEN ParseErr("Asset missing name")
    ELSE ParseOk([download_url |-> Get(asset.browser_download_url),
                  name |-> Get(asset.name)])

\* a mutant of CollectAssets: entries that do not parse are skipped
RECURSIVE CollectAssetsSkippingBad(_)
CollectAssetsSkippingBad(entries) ==
    IF entries = << >> THEN ParseOk(<< >>)
    ELSE LET first == FromAsset(Head(entries))
             rest == CollectAssetsSkippingBad(Tail(entries))
         IN  IF ~first.ok THEN rest
             ELSE ParseOk(<<Get(first.val)>> \o Get(rest.val))

\* iter().map(from_asset).collect::<Result<Vec<_>>>(): the first error in
\* list order, or all the parsed assets  (github.rs 215)
RECURSIVE CollectAssets(_)
CollectAssets(entries) ==
    IF entries = << >> THEN ParseOk(<< >>)
    ELSE LET first == FromAsset(Head(entries)) IN
         IF ~first.ok THEN ParseErr(first.msg)
         ELSE LET rest == CollectAssets(Tail(entries)) IN
              IF ~rest.ok THEN rest
              ELSE ParseOk(<<Get(first.val)>> \o Get(rest.val))

\* into_iter().filter(|ra| ra.name.contains(target)).nth(0)  (github.rs 216-218)
FirstMatching(assets, target) ==
    LET T(ra) == Contains(ra.name, target)
        hits == SelectSeq(assets, T)
    IN  IF hits = << >> THEN None ELSE Some(Head(hits))

\* the asset selection of update(): Ok(asset) or the Update error it bails
\* with  (github.rs 214-219)
SelectAsset(body, target) ==
    IF ~IsSome(body.assets) THEN ParseErr("No release assets found!")
    ELSE LET parsed == CollectAssets(Get(body.assets)) IN
         IF ~parsed.ok THEN parsed
         ELSE LET hit == FirstMatching(Get(parsed.val), target) IN
              IF ~IsSome(hit)
              THEN ParseErr("No release asset found for current target")
              ELSE ParseOk(Get(hit))

----------------------------------------------------------------------------
(* The decisions of update() and of its helpers *)

\* a mutant of IsUpToDate: an equal version is taken for a new release
IsUpToDateStrict(tag, current) == StrCmp(tag, current) = "Less"

\* latest_tag.cmp(&self.current_version) != Ordering::Greater  (github.rs 207)
IsUpToDate(tag, current) == StrCmp(tag, current) # "Greater"

\* a mutant of PromptOk: every answer is taken for a yes
PromptOkAlways(line) == Ok

\* prompt_ok once the line is read  (lib.rs 103-106)
PromptOk(line) ==
    IF ToLowercase(Trim(line)) # <<"y">>
    THEN Err("Update", "Update aborted")
    ELSE Ok

----------------------------------------------------------------------------
(* The state *)

NoTmp == [exists |-> FALSE, tarball |-> None, files |-> {}, backup |-> None]
NewTmp == [exists |-> TRUE, tarball |-> None, files |-> {}, backup |-> None]

Ev(op, ok) == [op |-> op, ok |-> ok]

\* Updater built by Builder::build  (github.rs 146-157) and the file at
\* bin_install_path before update() runs
Init ==
    /\ cfg \in [ repo_owner : {"jaemk"},
                 repo_name : {"self_update"},
                 bin_name : {"myapp"},
                 target : Targets,
                 current_version : CurrentVersions,
                 bin_path_in_tarball : Paths,
                 show_progress : BOOLEAN ]
    /\ pc = "CheckingVersions"
    /\ result = Running
    /\ latest = None
    /\ latest_tag = None
    /\ target_asset = None
    /\ answer = None
    /\ installed \in OldContents
    /\ installed0 = installed
    /\ tmp = NoTmp
    /\ replaceRet = "none"
    /\ call = None
    /\ log = << >>
    /\ builder = None
    /\ dl = None
    /\ bar = None

\* update() returns r: the scratch directory, if created, is dropped with
\* the TempDir value  (github.rs 228)
Return(r) ==
    /\ result' = r
    /\ pc' = "Done"
    /\ tmp' = NoTmp

\* github.rs 193-210: request the latest release, read its tag, compare
CheckVersions ==
    /\ pc = "CheckingVersions"
    /\ UNCHANGED << aux, cfg, target_asset, answer, installed, replaceRet, call,
                    installed0 >>
    /\ \/ \* print_flush! fails before the request  (193, 198)
          /\ Return(Err("Io", "flush"))
          /\ UNCHANGED << latest, latest_tag, log >>
       \/ \* reqwest::get fails  (199)
          /\ log' = Append(log, Ev("GET api_url", FALSE))
          /\ Return(Err("Reqwest", "get"))
          /\ UNCHANGED << latest, latest_tag >>
       \/ \* the status is no success  (200)
          /\ log' = Append(log, Ev("GET api_url", TRUE))
          /\ Return(Err("Update", "api request failed with status"))
          /\ UNCHANGED << latest, latest_tag >>
       \/ \* the body is no JSON  (201)
          /\ log' = Append(log, Ev("GET api_url", TRUE))
          /\ Return(Err("Reqwest", "json"))
          /\ UNCHANGED << latest, latest_tag >>
       \/ \E body \in Bodies :
          /\ log' = Append(log, Ev("GET api_url", TRUE))
          /\ latest' = Some(body)
          /\ IF ~IsSome(body.tag_name)
             THEN /\ Return(Err("Update", "No tag_name found for latest release"))
                  /\ UNCHANGED latest_tag
             ELSE LET tag == TrimLeftMatches(Get(body.tag_name), "v") IN
                  /\ latest_tag' = Some(tag)
                  /\ IF IsUpToDate(tag, cfg.current_version)
                     THEN Return(Ok)
                     ELSE /\ pc' = "ResolvingAsset"
                          /\ UNCHANGED << result, tmp >>

\* github.rs 214-219: parse the assets and select the one for the target
ResolveAsset ==
    /\ pc = "ResolvingAsset"
    /\ UNCHANGED << aux, cfg, latest, latest_tag, answer, installed, replaceRet,
                    call, installed0 >>
    /\ log' = Append(log, Ev("select asset", SelectAsset(Get(latest), cfg.target).ok))
    /\ LET sel == SelectAsset(Get(latest), cfg.target) IN
       IF sel.ok
       THEN /\ target_asset' = sel.val
            /\ pc' = "AwaitingConfirmation"
            /\ UNCHANGED << result, tmp >>
       ELSE /\ Return(Err("Update", sel.msg))
            /\ UNCHANGED target_asset

\* github.rs 221-226 and prompt_ok (lib.rs 97-107): print the summary, ask
Confirm ==
    /\ pc = "AwaitingConfirmation"
    /\ UNCHANGED << aux, cfg, latest, latest_tag, target_asset, installed,
                    replaceRet, call, installed0 >>
    /\ \/ \* print_flush! of the prompt fails  (lib.rs 98)
          /\ log' = Append(log, Ev("prompt", FALSE))
          /\ Return(Err("Io", "flush"))
          /\ UNCHANGED answer
       \/ \* read_line fails  (lib.rs 102)
          /\ log' = Append(log, Ev("prompt", TRUE))
          /\ Return(Err("Io", "read_line"))
          /\ UNCHANGED answer
       \/ \E line \in InputLines :
          /\ log' = Append(log, Ev("prompt", TRUE))
          /\ answer' = Some(line)
          /\ IF PromptOk(line) = Ok
             THEN /\ pc' = "CreatingTmpDir"
                  /\ UNCHANGED << result, tmp >>
             ELSE Return(PromptOk(line))

\* github.rs 228-230: create the scratch directory and the tarball file
CreateTmpDir ==
    /\ pc = "CreatingTmpDir"
    /\ UNCHANGED << aux, cfg, latest, latest_tag, target_asset, answer, installed,
                    replaceRet, call, installed0 >>
    /\ \/ \* TempDir::new fails  (228)
          /\ log' = Append(log, Ev("create tmp_dir", FALSE))
          /\ Return(Err("Io", "TempDir::new"))
       \/ \* File::create fails  (230): the directory is dropped again
          /\ log' = log \o << Ev("create tmp_dir", TRUE),
                              Ev("create tmp_tarball", FALSE) >>
          /\ Return(Err("Io", "File::create"))
       \/ /\ log' = log \o << Ev("create tmp_dir", TRUE),
                              Ev("create tmp_tarball", TRUE) >>
          /\ tmp' = [NewTmp EXCEPT !.tarball = Some(NotAnArchive)]
          /\ pc' = "Downloading"
          /\ UNCHANGED result

\* github.rs 232-233 and download_to_file_with_progress (lib.rs 143-170)
Download ==
    /\ pc = "Downloading"
    /\ UNCHANGED << aux, cfg, latest, latest_tag, target_asset, answer, installed,
                    replaceRet, call, installed0 >>
    /\ \/ \* reqwest::get fails  (lib.rs 144)
          /\ log' = Append(log, Ev("GET download_url", FALSE))
          /\ Return(Err("Reqwest", "get"))
       \/ \* the status is no success  (lib.rs 149)
          /\ log' = Append(log, Ev("GET download_url", TRUE))
          /\ Return(Err("Update", "Download request failed with status"))
       \/ \* reading the body or writing the file fails  (lib.rs 160-161)
          /\ log' = Append(log, Ev("GET download_url", TRUE))
          /\ Return(Err("Io", "download"))
       \/ \E a \in Archives \cup {NotAnArchive} :
          /\ log' = Append(log, Ev("GET download_url", TRUE))
          /\ tmp' = [tmp EXCEPT !.tarball = Some(a)]
          /\ pc' = "Extracting"
          /\ UNCHANGED result

\* the file at tmp_dir.path().join(bin_path_in_tarball), if there is one
NewExe(t) ==
    LET hits == { f \in t.files : f.path = cfg.bin_path_in_tarball } IN
    IF hits = {} THEN None ELSE Some((CHOOSE f \in hits : TRUE).data)

\* a mutant of Extract: the archive is unpacked over the installed path
ExtractOverInstalled ==
    /\ pc = "Extracting"
    /\ UNCHANGED << aux, cfg, latest, latest_tag, target_asset, answer,
                    replaceRet, installed0 >>
    /\ \/ /\ log' = Append(log, Ev("extract", FALSE))
          /\ Return(Err("Io", "extract_targz"))
          /\ UNCHANGED << call, installed >>
       \/ /\ Get(tmp.tarball).valid
          /\ log' = Append(log, Ev("extract", TRUE))
          /\ tmp' = [tmp EXCEPT !.files = Get(tmp.tarball).files]
          /\ installed' = IF Get(tmp.tarball).files = {} THEN installed
                          ELSE (CHOOSE f \in Get(tmp.tarball).files : TRUE).data
          /\ call' = Some([current |-> installed, new |-> NewExe(tmp')])
          /\ pc' = "Replacing:backup"
          /\ UNCHANGED result

\* github.rs 235-242 and extract_targz (lib.rs 180-186): unpack the tarball
\* into the scratch directory and call replace_exe
Extract ==
    /\ pc = "Extracting"
    /\ UNCHANGED << aux, cfg, latest, latest_tag, target_asset, answer, installed,
                    replaceRet, installed0 >>
    /\ \/ \* opening, decoding or unpacking fails, or a print_flush! does
          /\ log' = Append(log, Ev("extract", FALSE))
          /\ Return(Err("Io", "extract_targz"))
          /\ UNCHANGED call
       \/ /\ Get(tmp.tarball).valid
          /\ log' = Append(log, Ev("extract", TRUE))
          /\ tmp' = [tmp EXCEPT !.files = Get(tmp.tarball).files]
          /\ call' = Some([current |-> installed, new |-> NewExe(tmp')])
          /\ pc' = "Replacing:backup"
          /\ UNCHANGED result

----------------------------------------------------------------------------
(* replace_exe  (lib.rs 194-203) *)

\* a mutant of AfterBackup: the result of the backup copy is ignored
AfterBackupIgnoringError(ok) == "Replacing:rename"

\* fs::copy(current_exe, tmp_file)?  (lib.rs 195)
AfterBackup(ok) == IF ok THEN "Replacing:rename" ELSE "return Err"

\* a mutant of AfterRename: the original is copied back after every rename
AfterRenameAlwaysRestore(ok) == "Replacing:restore"

\* match fs::rename(new_exe, current_exe)  (lib.rs 196-201)
AfterRename(ok) == IF ok THEN "return Ok" ELSE "Replacing:restore"

\* fs::copy(tmp_file, current_exe)?; then Ok(())  (lib.rs 198, 202)
AfterRestore(ok) == IF ok THEN "return Ok" ELSE "return Err"

\* a mutant of RestoreSource: the new executable is copied instead
RestoreFromNewExe(t) == NewExe(t)

\* the file the restore copies from: tmp_file  (lib.rs 198)
RestoreSource(t) == t.backup

\* replace_exe goes to `next`: another step, or its return to update(),
\* which returns in turn  (github.rs 242-245)
ReplaceGoto(next) ==
    IF next = "return Ok"
    THEN /\ replaceRet' = "Ok"
         /\ result' = Ok
         /\ pc' = "Done"
    ELSE IF next = "return Err"
    THEN /\ replaceRet' = "Err"
         /\ result' = Err("Io", "replace_exe")
         /\ pc' = "Done"
    ELSE /\ pc' = next
         /\ UNCHANGED << replaceRet, result >>

\* a mutant of TmpAfter: the scratch directory is kept when replace_exe fails
TmpAfterLeakOnError(next, t) == IF next = "return Ok" THEN NoTmp ELSE t

\* the scratch directory after the step: dropped when update() returns
TmpAfter(next, t) == IF next \in {"return Ok", "return Err"} THEN NoTmp ELSE t

\* lib.rs 195: copy the installed executable to the backup file
ReplaceBackup ==
    /\ pc = "Replacing:backup"
    /\ UNCHANGED << aux, cfg, latest, latest_tag, target_asset, answer, installed,
                    call, installed0 >>
    /\ \/ /\ log' = Append(log, Ev("copy current_exe tmp_file", TRUE))
          /\ tmp' = TmpAfter(AfterBackup(TRUE), [tmp EXCEPT !.backup = Some(installed)])
          /\ ReplaceGoto(AfterBackup(TRUE))
       \/ \* the copy fails, leaving no backup or the beginning of one
          \E part \in {None} \cup { Some(c) : c \in ProperPrefixes(installed) } :
          /\ log' = Append(log, Ev("copy current_exe tmp_file", FALSE))
          /\ tmp' = TmpAfter(AfterBackup(FALSE), [tmp EXCEPT !.backup = part])
          /\ ReplaceGoto(AfterBackup(FALSE))

\* lib.rs 196: move the new executable onto the installed path
ReplaceRename ==
    /\ pc = "Replacing:rename"
    /\ UNCHANGED << aux, cfg, latest, latest_tag, target_asset, answer, call,
                    installed0 >>
    /\ \/ \* the rename succeeds: the new file takes the place of the old
          /\ IsSome(NewExe(tmp))
          /\ log' = Append(log, Ev("rename new_exe current_exe", TRUE))
          /\ installed' = Get(NewExe(tmp))
          /\ tmp' = TmpAfter(AfterRename(TRUE),
                     [tmp EXCEPT !.files =
                        { f \in tmp.files : f.path # cfg.bin_path_in_tarball }])
          /\ ReplaceGoto(AfterRename(TRUE))
       \/ \* the rename fails (no such file, another device, no permission):
          \* nothing has moved
          /\ log' = Append(log, Ev("rename new_exe current_exe", FALSE))
          /\ UNCHANGED installed
          /\ tmp' = TmpAfter(AfterRename(FALSE), tmp)
          /\ ReplaceGoto(AfterRename(FALSE))

\* lib.rs 198: copy the backup over the installed path
ReplaceRestore ==
    /\ pc = "Replacing:restore"
    /\ UNCHANGED << aux, cfg, latest, latest_tag, target_asset, answer, call,
                    installed0 >>
    /\ \/ /\ IsSome(RestoreSource(tmp))
          /\ log' = Append(log, Ev("copy tmp_file current_exe", TRUE))
          /\ installed' = Get(RestoreSource(tmp))
          /\ tmp' = TmpAfter(AfterRestore(TRUE), tmp)
          /\ ReplaceGoto(AfterRestore(TRUE))
       \/ \* the copy fails: the installed file was not opened, or it was
          \* truncated and written in part
          \E c \in {installed}
                   \cup (IF IsSome(RestoreSource(tmp))
                         THEN ProperPrefixes(Get(RestoreSource(tmp))) ELSE {}) :
          /\ log' = Append(log, Ev("copy tmp_file current_exe", FALSE))
          /\ installed' = c
          /\ tmp' = TmpAfter(AfterRestore(FALSE), tmp)
          /\ ReplaceGoto(AfterRestore(FALSE))

----------------------------------------------------------------------------

Next ==
    \/ CheckVersions
    \/ ResolveAsset
    \/ Confirm
    \/ CreateTmpDir
    \/ Download
    \/ Extract
    \/ ReplaceBackup
    \/ ReplaceRename
    \/ ReplaceRestore

Spec == Init /\ [][Next]_vars

----------------------------------------------------------------------------
(* Vocabulary of the properties *)

Did(op) == \E i \in 1..Len(log) : log[i].op = op
DidOk(op) == \E i \in 1..Len(log) : log[i].op = op /\ log[i].ok
DidFail(op) == \E i \in 1..Len(log) : log[i].op = op /\ ~log[i].ok

OpBackup == "copy current_exe tmp_file"
OpRename == "rename new_exe current_exe"
OpRestore == "copy tmp_file current_exe"

Returned == replaceRet # "none"

\* a < b in the ordinal (character by character) order of strings: at the
\* first position where they differ a has the smaller character, or a is a
\* proper prefix of b
OrdinalLess(a, b) ==
    \E k \in 0..Len(a) :
        /\ k <= Len(b)
        /\ \A i \in 1..k : a[i] = b[i]
        /\ \/ k = Len(a) /\ k < Len(b)
           \/ k < Len(a) /\ k < Len(b) /\ Ord(a[k + 1]) < Ord(b[k + 1])

\* the tag without its leading run of 'v'
StrippedTag(tag) ==
    LET k == CHOOSE n \in 0..Len(tag) :
                 /\ \A i \in 1..n : tag[i] = "v"
                 /\ n < Len(tag) => tag[n + 1] # "v"
    IN  SubSeq(tag, k + 1, Len(tag))

\* pat occurs in s as a substring
Occurs(pat, s) ==
    \E i \in 0..(Len(s) - Len(pat)) : SubSeq(s, i + 1, i + Len(pat)) = pat

\* the line is the affirmative token, in either case, with blanks around it
IsAffirmative(line) ==
    \E i \in 1..Len(line) :
        /\ line[i] \in {"y", "Y"}
        /\ \A j \in (1..Len(line)) \ {i} : line[j] \in {" ", "\n"}

Declined == IsSome(answer) /\ ~IsAffirmative(Get(answer))

TagKnown == IsSome(latest) /\ IsSome(Get(latest).tag_name)
RemoteTag == Get(Get(latest).tag_name)

Proceeded == pc = "ResolvingAsset" \/ Did("select asset")
UpToDate ==
    /\ pc = "Done"
    /\ result = Ok
    /\ log = << Ev("GET api_url", TRUE) >>

----------------------------------------------------------------------------
(* replace_exe *)

\* C1: when replace_exe has returned, with success or with an error, the
\* installed path holds the complete new executable or exactly what it held
\* before the call.
C1_InstalledIsNewOrOld ==
    Returned =>
        \/ installed = Get(call).current
        \/ IsSome(Get(call).new) /\ installed = Get(Get(call).new)

\* C2: if the backup copy succeeds and the rename fails, replace_exe
\* returns an error, also when the restore copy succeeds.
C2_RenameFailureIsReported ==
    (Returned /\ DidOk(OpBackup) /\ DidFail(OpRename)) => replaceRet = "Err"

\* C3: when update() returns success after the replacement stage, the
\* installed path holds the executable packaged in the downloaded archive
\* at the configured in-archive path.
C3_SuccessMeansInstalled ==
    (pc = "Done" /\ result = Ok /\ Returned) =>
        /\ IsSome(Get(call).new)
        /\ installed = Get(Get(call).new)

\* C6: if the rename succeeds, replace_exe returns success and the
\* installed path holds exactly the new executable's content.
C6_RenameSuccessInstallsNew ==
    (Returned /\ DidOk(OpRename)) =>
        /\ replaceRet = "Ok"
        /\ IsSome(Get(call).new)
        /\ installed = Get(Get(call).new)

C6_Witness ==
    /\ Returned
    /\ DidOk(OpRename)
    /\ installed # installed0

\* C7: if the backup copy succeeds, the rename fails and the restore copy
\* succeeds, the installed path holds what it held before the call.
C7_RestoreIsNoOp ==
    (Returned /\ DidOk(OpBackup) /\ DidFail(OpRename) /\ DidOk(OpRestore)) =>
        installed = Get(call).current

C7_Witness ==
    /\ Returned
    /\ DidOk(OpBackup) /\ DidFail(OpRename) /\ DidOk(OpRestore)
    /\ IsSome(Get(call).new)

\* C8: the backup is completely written before the rename is attempted,
\* the rename is attempted only after the backup copy succeeded, and a
\* failed backup copy makes replace_exe return an error at once, without a
\* rename or a restore and with the installed path unchanged.
C8_BackupBeforeRename ==
    /\ pc = "Replacing:rename" =>
          /\ tmp.backup = Some(installed)
          /\ installed = Get(call).current
    /\ Did(OpRename) => DidOk(OpBackup)
    /\ DidFail(OpBackup) =>
          /\ replaceRet = "Err"
          /\ result.kind \notin {"Running", "Ok"}
          /\ ~Did(OpRename)
          /\ ~Did(OpRestore)
          /\ installed = Get(call).current

C8_Witness ==
    /\ DidFail(OpBackup)
    /\ Returned

----------------------------------------------------------------------------
(* update() *)

\* C4 as stated: a non-affirmative answer at the prompt ends update() in
\* a non-error outcome.
C4_DeclineIsNotAnError ==
    (Declined /\ pc = "Done") => result = Ok

\* C4 as amended: a non-affirmative answer at the prompt makes update()
\* return the Update error "Update aborted"; no scratch directory is
\* created, no download is requested and the installed path is unchanged.
C4_DeclineIsAnUpdateError ==
    Declined =>
        /\ pc = "Done"
        /\ result = Err("Update", "Update aborted")
        /\ ~tmp.exists
        /\ ~Did("create tmp_dir")
        /\ ~Did("GET download_url")
        /\ installed = installed0

C4_Witness ==
    /\ Declined
    /\ pc = "Done"
    /\ Get(answer) = <<"y", "e", "s", "\n">>

\* C5: if the tag without its leading 'v' is equal to or ordinally less
\* than the current version, update() returns success having done nothing
\* but the metadata request: no asset selected, no prompt, no scratch
\* directory, no download, the installed path unchanged.
C5_UpToDateHasNoSideEffects ==
    (TagKnown /\ ~OrdinalLess(cfg.current_version, StrippedTag(RemoteTag))) =>
        /\ pc = "Done"
        /\ result = Ok
        /\ log = << Ev("GET api_url", TRUE) >>
        /\ target_asset = None
        /\ answer = None
        /\ ~tmp.exists
        /\ installed = installed0

C5_Witness ==
    /\ TagKnown
    /\ StrippedTag(RemoteTag) = cfg.current_version
    /\ pc = "Done"

\* C9: update() proceeds past the version check exactly when the tag
\* without its leading 'v' is ordinally greater than the current version
\* as given; so current 1.0.0 with tag v1.2.0 proceeds, and current 9.0.0
\* with tag v10.0.0 is reported as already up to date.
C9_ProceedsIffOrdinallyGreater ==
    TagKnown =>
        /\ OrdinalLess(cfg.current_version, StrippedTag(RemoteTag)) <=> Proceeded
        /\ ~OrdinalLess(cfg.current_version, StrippedTag(RemoteTag)) <=> UpToDate
        /\ ( /\ cfg.current_version = <<"1", ".", "0", ".", "0">>
             /\ RemoteTag = <<"v", "1", ".", "2", ".", "0">> ) => Proceeded
        /\ ( /\ cfg.current_version = <<"9", ".", "0", ".", "0">>
             /\ RemoteTag = <<"v", "1", "0", ".", "0", ".", "0">> ) => UpToDate

C9_Witness ==
    /\ TagKnown
    /\ cfg.current_version = <<"9", ".", "0", ".", "0">>
    /\ RemoteTag = <<"v", "1", "0", ".", "0", ".", "0">>
    /\ UpToDate

\* the entries of the fetched release's assets, when all are well-formed
AssetsWellFormed ==
    /\ IsSome(latest)
    /\ IsSome(Get(latest).assets)
    /\ \A i \in 1..Len(Get(Get(latest).assets)) :
          Get(Get(latest).assets)[i] \in WellFormedEntries
FetchedAssets == Get(Get(latest).assets)
MatchingIndices ==
    { i \in 1..Len(FetchedAssets) : Occurs(cfg.target, Get(FetchedAssets[i].name)) }

\* C10: over well-formed assets the selection returns the first asset in
\* list order whose name contains the target as a substring, and fails
\* with an Update error when there is none, in which case no prompt is
\* shown and no download is started.
C10_FirstAssetContainingTarget ==
    (Did("select asset") /\ AssetsWellFormed) =>
        IF MatchingIndices = {}
        THEN /\ pc = "Done"
             /\ result.kind = "Update"
             /\ target_asset = None
             /\ ~Did("prompt")
             /\ ~Did("GET download_url")
        ELSE LET first == CHOOSE i \in MatchingIndices :
                              \A j \in MatchingIndices : i <= j
             IN  target_asset =
                     Some([download_url |-> Get(FetchedAssets[first].browser_download_url),
                           name |-> Get(FetchedAssets[first].name)])

C10_Witness ==
    /\ Did("select asset")
    /\ AssetsWellFormed
    /\ Cardinality(MatchingIndices) >= 2
    /\ IsSome(target_asset)
    /\ Get(target_asset).name # cfg.target

----------------------------------------------------------------------------
(* Builder  (github.rs 42-158) *)

\* arguments the setters are called with; "" and << >> are empty strings
OwnerArgs == {"", "jaemk"}
RepoArgs == {"", "self_update"}
TargetArgs == {<< >>, <<"l", "i", "n", "u", "x">>}
BinNameArgs == {"", "myapp", "other"}
InstallPathArgs == {"", "/usr/local/bin/myapp"}
TarballPathArgs == {"", "myapp/myapp"}
VersionArgs == {<< >>, <<"1", ".", "0", ".", "0">>}

\* Builder::new: every field None but bin_install_path  (github.rs 58-67)
NewBuilder ==
    [ repo_owner |-> None, repo_name |-> None,
      target |-> None, bin_name |-> None,
      bin_install_path |-> Some("current_exe"),
      bin_path_in_tarball |-> None,
      show_progress |-> FALSE,
      current_version |-> None ]

\* github.rs 70-73
SetRepoOwner(b, owner) == [b EXCEPT !.repo_owner = Some(owner)]
\* github.rs 76-79
SetRepoName(b, name) == [b EXCEPT !.repo_name = Some(name)]
\* github.rs 83-86
SetCurrentVersion(b, ver) == [b EXCEPT !.current_version = Some(ver)]
\* github.rs 90-93
SetTarget(b, target) == [b EXCEPT !.target = Some(target)]
\* github.rs 96-102: the in-archive path takes the name only while it is None
SetBinName(b, name) ==
    [b EXCEPT !.bin_name = Some(name),
              !.bin_path_in_tarball =
                  IF b.bin_path_in_tarball = None THEN Some(name) ELSE @]
\* github.rs 106-109
SetBinInstallPath(b, path) == [b EXCEPT !.bin_install_path = Some(path)]
\* github.rs 131-134
SetBinPathInTarball(b, path) == [b EXCEPT !.bin_path_in_tarball = Some(path)]
\* github.rs 137-140
SetShowProgress(b, show) == [b EXCEPT !.show_progress = show]

BuildOk(u) == [kind |-> "Ok", msg |-> "", updater |-> Some(u)]
BuildErr(m) == [kind |-> "Config", msg |-> m, updater |-> None]
NotBuilt == [kind |-> "NotBuilt", msg |-> "", updater |-> None]

\* Builder::build: the first field that is None makes it bail with a Config
\* error  (github.rs 146-157)
Build(b) ==
    IF b.repo_owner = None THEN BuildErr("repo_owner required")
    ELSE IF b.repo_name = None THEN BuildErr("repo_name required")
    ELSE IF b.target = None THEN BuildErr("target required")
    ELSE IF b.bin_name = None THEN BuildErr("bin_name required")
    ELSE IF b.bin_install_path = None THEN BuildErr("bin_install_path required")
    ELSE IF b.bin_path_in_tarball = None THEN BuildErr("bin_path_in_tarball required")
    ELSE IF b.current_version = None THEN BuildErr("current_version required")
    ELSE BuildOk([ repo_owner |-> Get(b.repo_owner),
                   repo_name |-> Get(b.repo_name),
                   target |-> Get(b.target),
                   bin_name |-> Get(b.bin_name),
                   bin_install_path |-> Get(b.bin_install_path),
                   bin_path_in_tarball |-> Get(b.bin_path_in_tarball),
                   current_version |-> Get(b.current_version),
                   show_progress |-> b.show_progress ])

\* update() and the helpers are not running
UpdateNotStarted ==
    /\ cfg = None
    /\ pc = "NotStarted"
    /\ result = Running
    /\ latest = None
    /\ latest_tag = None
    /\ target_asset = None
    /\ answer = None
    /\ installed = <<0>>
    /\ installed0 = <<0>>
    /\ tmp = NoTmp
    /\ replaceRet = "none"
    /\ call = None
    /\ log = << >>

update_vars == << cfg, pc, result, latest, latest_tag, target_asset, answer,
                  installed, tmp, replaceRet, call, installed0, log >>

\* Updater::configure()  (github.rs 174-176): a new Builder, or the Io error
\* of env::current_exe.  explicit_path records the argument of the last
\* bin_path_in_tarball() call
InitBuilder ==
    /\ UpdateNotStarted
    /\ dl = None
    /\ bar = None
    /\ builder \in
         { [stage |-> "Configuring", b |-> NewBuilder, built |-> NotBuilt,
            explicit_path |-> None],
           [stage |-> "NewFailed", b |-> NewBuilder, built |-> NotBuilt,
            explicit_path |-> None] }

Configure(b2) ==
    /\ builder.stage = "Configuring"
    /\ builder' = [builder EXCEPT !.b = b2]
    /\ UNCHANGED << update_vars, dl, bar >>

CallRepoOwner == \E x \in OwnerArgs : Configure(SetRepoOwner(builder.b, x))
CallRepoName == \E x \in RepoArgs : Configure(SetRepoName(builder.b, x))
CallCurrentVersion ==
    \E x \in VersionArgs : Configure(SetCurrentVersion(builder.b, x))
CallTarget == \E x \in TargetArgs : Configure(SetTarget(builder.b, x))
CallBinName == \E x \in BinNameArgs : Configure(SetBinName(builder.b, x))
CallBinInstallPath ==
    \E x \in InstallPathArgs : Configure(SetBinInstallPath(builder.b, x))
CallShowProgress == \E x \in BOOLEAN : Configure(SetShowProgress(builder.b, x))
CallBinPathInTarball ==
    \E x \in TarballPathArgs :
        /\ builder.stage = "Configuring"
        /\ builder' = [builder EXCEPT !.b = SetBinPathInTarball(builder.b, x),
                                      !.explicit_path = Some(x)]
        /\ UNCHANGED << update_vars, dl, bar >>

\* .build()
CallBuild ==
    /\ builder.stage = "Configuring"
    /\ builder' = [builder EXCEPT !.stage = "Built", !.built = Build(builder.b)]
    /\ UNCHANGED << update_vars, dl, bar >>

\* .build()?.update(): update(self) starts on the Updater build() returned
CallUpdate ==
    /\ builder.stage = "Built"
    /\ builder.built.kind = "Ok"
    /\ pc = "NotStarted"
    /\ pc' = "CheckingVersions"
    /\ cfg' = builder.built.updater
    /\ UNCHANGED << result, latest, latest_tag, target_asset, answer,
                    installed, tmp, replaceRet, call, installed0, log, aux >>

NextBuilder ==
    \/ CallRepoOwner
    \/ CallRepoName
    \/ CallCurrentVersion
    \/ CallTarget
    \/ CallBinName
    \/ CallBinInstallPath
    \/ CallBinPathInTarball
    \/ CallShowProgress
    \/ CallBuild
    \/ CallUpdate

SpecBuilder == InitBuilder /\ [][NextBuilder]_vars

Built == builder.stage = "Built"
Updater == Get(builder.built.updater)

\* C11: an Updater is built, and an update can proceed, only when every
\* required field is present and non-empty.
C11_BuiltOnlyIfPresentAndNonEmpty ==
    (Built /\ builder.built.kind = "Ok") =>
        /\ builder.b.repo_owner \notin {None, Some("")}
        /\ builder.b.repo_name \notin {None, Some("")}
        /\ builder.b.target \notin {None, Some(<< >>)}
        /\ builder.b.bin_name \notin {None, Some("")}
        /\ builder.b.bin_install_path \notin {None, Some("")}
        /\ builder.b.bin_path_in_tarball \notin {None, Some("")}
        /\ builder.b.current_version \notin {None, Some(<< >>)}

AllRequiredSet ==
    \A f \in {"repo_owner", "repo_name", "target", "bin_name",
              "bin_install_path", "bin_path_in_tarball", "current_version"} :
        Len(builder.b[f]) = 1

\* What build() does enforce: an Updater is built, and update() can start,
\* exactly when every required field has been set (an empty string counts
\* as set); otherwise build() fails with a Config error and update() has
\* not started, so nothing was requested or written.
BuiltIffAllSet ==
    /\ Built =>
          /\ builder.built.kind = "Ok" <=> AllRequiredSet
          /\ builder.built.kind # "Ok" =>
                /\ builder.built.kind = "Config"
                /\ pc = "NotStarted"
                /\ log = << >>
                /\ installed = installed0
    /\ pc # "NotStarted" =>
          /\ Built
          /\ AllRequiredSet
          /\ cfg = Some([ repo_owner |-> Get(builder.b.repo_owner),
                          repo_name |-> Get(builder.b.repo_name),
                          target |-> Get(builder.b.target),
                          bin_name |-> Get(builder.b.bin_name),
                          bin_install_path |-> Get(builder.b.bin_install_path),
                          bin_path_in_tarball |-> Get(builder.b.bin_path_in_tarball),
                          current_version |-> Get(builder.b.current_version),
                          show_progress |-> builder.b.show_progress ])

\* C20: when bin_path_in_tarball() was never called, the built Updater's
\* in-archive path is its final bin_name; a path set by
\* bin_path_in_tarball() is kept whatever bin_name() calls follow.
C20_PathDefaultsToFinalBinName ==
    (Built /\ builder.built.kind = "Ok") =>
        IF IsSome(builder.explicit_path)
        THEN Updater.bin_path_in_tarball = Get(builder.explicit_path)
        ELSE Updater.bin_path_in_tarball = Updater.bin_name

----------------------------------------------------------------------------
(* update(): resources, failures, order of the stages *)

\* C12: the scratch directory is released on every path by which update()
\* returns after creating it; no terminal state leaves the directory, the
\* tarball, the extracted files or the backup in existence.
C12_ScratchDirReleased ==
    /\ pc = "Done" => tmp = NoTmp
    /\ tmp.exists => DidOk("create tmp_dir") /\ result = Running

C12_Witness ==
    /\ pc = "Done"
    /\ DidOk("create tmp_dir")
    /\ DidOk(OpBackup)
    /\ replaceRet = "Err"

Count(op) == Cardinality({ i \in 1..Len(log) : log[i].op = op })

\* C13: a failure in any stage ends update() at once with an error, the
\* restore copy after a failed rename being the only step that may follow
\* a failure, and nothing is retried: no operation is performed twice.
C13_FailureEndsWithErrorNoRetry ==
    /\ \A i \in 1..Len(log) : Count(log[i].op) = 1
    /\ (\E i \in 1..Len(log) : ~log[i].ok) =>
          \/ pc = "Done" /\ result.kind \notin {"Running", "Ok"}
          \/ pc = "Replacing:restore"

\* the place of an operation in the body of update()
Rank(op) ==
    CASE op = "GET api_url" -> 1
      [] op = "select asset" -> 2
      [] op = "prompt" -> 3
      [] op = "create tmp_dir" -> 4
      [] op = "create tmp_tarball" -> 5
      [] op = "GET download_url" -> 6
      [] op = "extract" -> 7
      [] op = OpBackup -> 8
      [] op = OpRename -> 9
      [] op = OpRestore -> 10

C15_InstalledWrittenOnlyInReplacing ==
    /\ ~(Did(OpRename) \/ Did(OpRestore)) => installed = installed0
    /\ (pc = "Done" /\ ~Returned) => installed = installed0

C15_Witness ==
    /\ pc = "Done"
    /\ DidFail("extract")

\* C16: every asset entry is parsed before the filtering: if any entry
\* lacks its name or its download URL the selection fails with an Update
\* error, also when a well-formed asset matching the target comes earlier
\* in the list.
C16_AnyMalformedEntryFailsSelection ==
    ( /\ Did("select asset")
      /\ IsSome(Get(latest).assets)
      /\ \E i \in 1..Len(FetchedAssets) : FetchedAssets[i] \in MalformedEntries ) =>
        /\ pc = "Done"
        /\ result.kind = "Update"
        /\ result.msg \in {"Asset missing name", "Asset missing browser_download_url"}
        /\ target_asset = None
        /\ ~Did("prompt")

C16_Witness ==
    /\ Did("select asset")
    /\ IsSome(Get(latest).assets)
    /\ Len(FetchedAssets) = 2
    /\ FetchedAssets[1] \in WellFormedEntries
    /\ Occurs(cfg.target, Get(FetchedAssets[1].name))
    /\ FetchedAssets[2] \in MalformedEntries

----------------------------------------------------------------------------
(* display_dl_progress  (lib.rs 115-130) *)

\* the largest total size for which every bytes_read is enumerated
MaxTotal == 15

\* let bar_width = 75  (lib.rs 116)
BarWidth == 75

\* the significand of an f64 holds 53 bits  (as f64, lib.rs 117)
MantissaBits == 53

\* A non-negative f64 is [bits, exp]: the binary digits of an integer, most
\* significant first, and the power of two that scales it.
F64(bits, exp) == [bits |-> bits, exp |-> exp]

RECURSIVE BitsToNat(_)
BitsToNat(bits) ==
    IF bits = << >> THEN 0
    ELSE 2 * BitsToNat(SubSeq(bits, 1, Len(bits) - 1)) + bits[Len(bits)]

RECURSIVE NatToBits(_)
NatToBits(n) == IF n = 0 THEN << >> ELSE Append(NatToBits(n \div 2), n % 2)

RECURSIVE StripLeadingZeros(_)
StripLeadingZeros(bits) ==
    IF bits # << >> /\ Head(bits) = 0 THEN StripLeadingZeros(Tail(bits)) ELSE bits

RECURSIVE Increment(_)
Increment(bits) ==
    IF bits = << >> THEN <<1>>
    ELSE IF bits[Len(bits)] = 0 THEN [bits EXCEPT ![Len(bits)] = 1]
    ELSE Append(Increment(SubSeq(bits, 1, Len(bits) - 1)), 0)

\* IEEE 754 rounding of an exact value to the significand: to nearest, ties
\* to even  (every f64 operation of lib.rs 117-119 rounds its result so)
RoundF64(x) ==
    LET b == StripLeadingZeros(x.bits)
        n == Len(b)
    IN  IF n <= MantissaBits THEN F64(b, x.exp)
        ELSE LET kept == SubSeq(b, 1, MantissaBits)
                 rest == SubSeq(b, MantissaBits + 1, n)
                 sticky == \E i \in 2..Len(rest) : rest[i] = 1
                 up == rest[1] = 1 /\ (sticky \/ kept[MantissaBits] = 1)
             IN  F64(IF up THEN Increment(kept) ELSE kept,
                     x.exp + (n - MantissaBits))

\* the next n binary digits of r / t, for r < t
RECURSIVE QuotientBits(_, _, _)
QuotientBits(r, t, n) ==
    IF n = 0 THEN << >>
    ELSE IF 2 * r >= t THEN <<1>> \o QuotientBits(2 * r - t, t, n - 1)
    ELSE <<0>> \o QuotientBits(2 * r, t, n - 1)

\* what is left of r after those n digits
RECURSIVE QuotientRest(_, _, _)
QuotientRest(r, t, n) ==
    IF n = 0 THEN r
    ELSE IF 2 * r >= t THEN QuotientRest(2 * r - t, t, n - 1)
    ELSE QuotientRest(2 * r, t, n - 1)

\* the least k with b * 2^k >= t, as the pair << k, b * 2^k >>
RECURSIVE Normalise(_, _, _)
Normalise(b, t, k) == IF b >= t THEN << k, b >> ELSE Normalise(2 * b, t, k + 1)

\* bytes_read as f64 / total_size as f64  (lib.rs 117), for values that f64
\* holds exactly and bytes_read <= total_size: the quotient to one digit
\* past the significand and a sticky digit for the rest, then rounded
DivF64(b, t) ==
    IF b = 0 THEN F64(<< >>, 0)
    ELSE LET kn == Normalise(b, t, 0)
             q == QuotientBits(kn[2] - t, t, MantissaBits)
             r == QuotientRest(kn[2] - t, t, MantissaBits)
         IN  RoundF64(F64(<<1>> \o q \o << IF r = 0 THEN 0 ELSE 1 >>,
                          0 - kn[1] - MantissaBits - 1))

\* the binary digits of bits * c + carry0
TimesBits(bits, c, carry0) ==
    LET n == Len(bits)
        \* the carry into digit i, counted from the least significant
        carry[i \in 1..(n + 1)] ==
            IF i = 1 THEN carry0
            ELSE (bits[n - i + 2] * c + carry[i - 1]) \div 2
    IN  NatToBits(carry[n + 1])
          \o [ j \in 1..n |-> (bits[j] * c + carry[n - j + 1]) % 2 ]

\* x * c for a small whole number c  (ratio * 100., bar_width as f64 * ratio;
\* lib.rs 118-119): the exact product, rounded
MulF64(x, c) == RoundF64(F64(TimesBits(x.bits, c, 0), x.exp))

\* x as u8, x as usize  (lib.rs 118-119), for x within the range of the
\* type: the digits before the binary point
Trunc(x) ==
    LET n == Len(x.bits) + x.exp
    IN  IF n <= 0 THEN 0 ELSE BitsToNat(SubSeq(x.bits, 1, n))

\* x == n for a whole number n
EqualsNat(x, n) ==
    /\ Trunc(x) = n
    /\ \A i \in 1..Len(x.bits) : i > Len(x.bits) + x.exp => x.bits[i] = 0

RECURSIVE Digits(_)
Digits(n) == IF n < 10 THEN 1 ELSE 1 + Digits(n \div 10)

Max(a, b) == IF a >= b THEN a ELSE b

\* lib.rs 116-129: what the bar shows and the length returned
DisplayDlProgress(total_size, bytes_read) ==
    LET ratio == DivF64(bytes_read, total_size)
        percent == Trunc(MulF64(ratio, 100))
        n_complete == Trunc(MulF64(ratio, BarWidth))
        cursor == ~EqualsNat(ratio, 1)
        complete_bars == n_complete + (IF cursor THEN 1 ELSE 0)
    IN  [ total_size |-> total_size,
          bytes_read |-> bytes_read,
          percent |-> percent,
          n_complete |-> n_complete,
          cursor |-> cursor,
          len |-> Max(3, Digits(percent)) + 3 + Max(BarWidth, complete_bars) + 2
                    + Digits(total_size \div 1000) + 2 ]

\* the calls examined: every bytes_read of every small total, and the sizes
\* of the documented examples
ProgressCalls ==
    { << t, b >> \in (1..MaxTotal) \X (0..MaxTotal) : b <= t }
      \cup { <<50, 29>>, <<1000, 0>>, <<1000, 500>>, <<1000, 999>>, <<1000, 1000>> }

ClearSizes == {0, 86}

InitProgress ==
    /\ UpdateNotStarted
    /\ builder = None
    /\ dl = None
    /\ \E c \in ProgressCalls, clear \in ClearSizes :
         bar = [ total_size |-> c[1], bytes_read |-> c[2], clear_size |-> clear,
                 at |-> "called", cleared |-> 0, shown |-> None,
                 result |-> Running, len |-> 0 ]

\* lib.rs 123-124: the clearing characters are printed; the flush may fail
ClearBar ==
    /\ bar.at = "called"
    /\ \/ bar' = [bar EXCEPT !.at = "cleared", !.cleared = bar.clear_size]
       \/ bar' = [bar EXCEPT !.at = "returned", !.result = Err("Io", "flush")]
    /\ UNCHANGED << update_vars, builder, dl >>

\* lib.rs 126-129: the bar is printed and its length returned; the flush
\* may fail after the print
ShowBar ==
    /\ bar.at = "cleared"
    /\ LET d == DisplayDlProgress(bar.total_size, bar.bytes_read) IN
       \/ bar' = [bar EXCEPT !.at = "returned", !.shown = Some(d),
                             !.result = Ok, !.len = d.len]
       \/ bar' = [bar EXCEPT !.at = "returned", !.shown = Some(d),
                             !.result = Err("Io", "flush")]
    /\ UNCHANGED << update_vars, builder, dl >>

NextProgress == ClearBar \/ ShowBar

SpecProgress == InitProgress /\ [][NextProgress]_vars

\* C19: for total_size > 0 and 0 <= bytes_read <= total_size the percentage
\* shown is floor(100 * bytes_read / total_size), within 0..100, the filled
\* region has floor(75 * bytes_read / total_size) characters, the cursor is
\* there exactly when bytes_read < total_size, filled region and cursor
\* fit the 75 columns, 500 of 1000 shows 50 and bytes_read = total_size
\* shows 100 without a cursor.
C19_PercentAndFillAreFloors ==
    IsSome(bar.shown) =>
        LET d == Get(bar.shown)
            t == bar.total_size
            b == bar.bytes_read
        IN  /\ d.percent = (100 * b) \div t
            /\ d.percent \in 0..100
            /\ d.n_complete = (BarWidth * b) \div t
            /\ d.cursor <=> (b < t)
            /\ d.n_complete + (IF d.cursor THEN 1 ELSE 0) <= BarWidth
            /\ (t = 1000 /\ b = 500) => d.percent = 50
            /\ b = t => d.percent = 100 /\ ~d.cursor

----------------------------------------------------------------------------
(* download_to_file_with_progress  (lib.rs 143-170) *)

\* the longest response body
MaxBody == 3

\* a body of n distinct bytes
Body(n) == [ i \in 1..n |-> i ]

\* the ways the buffered reader may hand a body out in non-empty chunks
RECURSIVE Chunkings(_)
Chunkings(bytes) ==
    IF bytes = << >> THEN { << >> }
    ELSE UNION { { <<SubSeq(bytes, 1, k)>> \o rest :
                     rest \in Chunkings(SubSeq(bytes, k + 1, Len(bytes))) } :
                 k \in 1..Len(bytes) }

\* the Content-Length header of a response with the given body: absent,
\* zero, or the length of the body
ContentLengths(bytes) == { None, Some(0), Some(Len(bytes)) }

InitDownload ==
    /\ UpdateNotStarted
    /\ builder = None
    /\ bar = None
    /\ \E n \in 0..MaxBody, flag \in BOOLEAN, status_ok \in BOOLEAN :
       \E chunks \in Chunkings(Body(n)), header \in ContentLengths(Body(n)) :
         dl = [ flag |-> flag, header |-> header, status_ok |-> status_ok,
                all |-> chunks, chunks |-> chunks,
                at |-> "get", size |-> 0, show_progress |-> flag,
                bytes_read |-> 0, clear_size |-> 0,
                dest |-> << >>, written |-> << >>,
                shown |-> << >>, done_notice |-> FALSE,
                result |-> Running ]

DlReturn(d, r) == [d EXCEPT !.at = "returned", !.result = r]

\* a mutant of ShowProgress: the caller's flag is taken as it is
ShowProgressAsAsked(flag, size) == flag

\* lib.rs 150: if size == 0 { show_progress = false; }
ShowProgress(flag, size) == IF size = 0 THEN FALSE ELSE flag

\* lib.rs 144-153: the request, the declared size, the status
DlGet ==
    /\ dl.at = "get"
    /\ \/ \* reqwest::get fails  (144)
          dl' = DlReturn(dl, Err("Reqwest", "get"))
       \/ LET size == IF IsSome(dl.header) THEN Get(dl.header) ELSE 0 IN
          IF ~dl.status_ok
          THEN dl' = DlReturn([dl EXCEPT !.size = size],
                              Err("Update", "Download request failed with status"))
          ELSE dl' = [dl EXCEPT !.size = size,
                                !.show_progress = ShowProgress(dl.flag, size),
                                !.at = "loop"]
    /\ UNCHANGED << update_vars, builder, bar >>

\* lib.rs 156-158: the top of the loop
DlDisplay ==
    /\ dl.at = "loop"
    /\ IF dl.show_progress
       THEN LET d == DisplayDlProgress(dl.size, dl.bytes_read) IN
            \/ \* a flush of display_dl_progress fails  (lib.rs 124)
               dl' = DlReturn(dl, Err("Io", "flush"))
            \/ dl' = [dl EXCEPT !.shown = Append(@, d), !.clear_size = d.len,
                                !.at = "read"]
       ELSE dl' = [dl EXCEPT !.at = "read"]
    /\ UNCHANGED << update_vars, builder, bar >>

\* a mutant of Advance: the counter counts the chunks
AdvanceCountingChunks(d, buf) ==
    [d EXCEPT !.dest = @ \o buf, !.written = Append(@, buf),
              !.chunks = Tail(@), !.bytes_read = @ + 1, !.at = "loop"]

\* lib.rs 161-166: write_all(buf), consume(n), bytes_read += n
Advance(d, buf) ==
    [d EXCEPT !.dest = @ \o buf, !.written = Append(@, buf),
              !.chunks = Tail(@), !.bytes_read = @ + Len(buf), !.at = "loop"]

\* lib.rs 159-168: fill_buf, write_all, and the end of the loop
DlCopyChunk ==
    /\ dl.at = "read"
    /\ \/ \* fill_buf fails  (160)
          dl' = DlReturn(dl, Err("Io", "fill_buf"))
       \/ \* end of stream: the empty buffer is written, n == 0 breaks, the
          \* notice is printed  (161-168)
          /\ dl.chunks = << >>
          /\ dl' = DlReturn([dl EXCEPT !.written = Append(@, << >>),
                                       !.done_notice = dl.show_progress], Ok)
       \/ \* write_all fails after part of the buffer  (161)
          /\ dl.chunks # << >>
          /\ \E part \in ProperPrefixes(Head(dl.chunks)) :
               dl' = DlReturn([dl EXCEPT !.dest = @ \o part], Err("Io", "write_all"))
       \/ /\ dl.chunks # << >>
          /\ dl' = Advance(dl, Head(dl.chunks))
    /\ UNCHANGED << update_vars, builder, bar >>

NextDownload == DlGet \/ DlDisplay \/ DlCopyChunk

SpecDownload == InitDownload /\ [][NextDownload]_vars

RECURSIVE Flatten(_)
Flatten(chunks) == IF chunks = << >> THEN << >> ELSE Head(chunks) \o Flatten(Tail(chunks))

DeclaredSize == IF IsSome(dl.header) THEN Get(dl.header) ELSE 0

Consumed == SubSeq(dl.all, 1, Len(dl.all) - Len(dl.chunks))

\* C17: the bar is never rendered with a total of zero: when the
\* content-length is absent or zero, progress is off for the whole download
\* whatever the caller's flag, neither a bar nor the completion notice is
\* printed, and a download that succeeds has still written the whole body.
C17_NoProgressWithoutTotal ==
    /\ \A i \in 1..Len(dl.shown) : dl.shown[i].total_size # 0
    /\ DeclaredSize = 0 =>
          /\ dl.at \in {"loop", "read"} => ~dl.show_progress
          /\ dl.shown = << >>
          /\ ~dl.done_notice
          /\ dl.result = Ok => dl.dest = Flatten(dl.all)

C17_Witness ==
    /\ dl.flag
    /\ dl.header = None
    /\ dl.result = Ok
    /\ Len(dl.dest) >= 2

\* C18: the loop writes each chunk exactly once and in order, so that the
\* destination holds the concatenation of the chunks read so far and the
\* counter is the number of bytes written; it ends with the first empty
\* read; a response without success status fails the download before
\* anything is written.
C18_ChunksWrittenOnceInOrder ==
    /\ dl.result # Ok => dl.written = Consumed
    /\ dl.result \in {Running, Ok} =>
          /\ dl.dest = Flatten(Consumed)
          /\ dl.bytes_read = Len(dl.dest)
    /\ dl.result = Ok =>
          /\ dl.written = Append(dl.all, << >>)
          /\ dl.dest = Flatten(dl.all)
          /\ dl.bytes_read = Len(Flatten(dl.all))
    /\ (dl.at # "get" /\ ~dl.status_ok) =>
          /\ dl.at = "returned"
          /\ dl.result \in { Err("Update", "Download request failed with status"),
                             Err("Reqwest", "get") }
          /\ dl.dest = << >>
          /\ dl.written = << >>

C18_Witness ==
    /\ dl.result = Ok
    /\ Len(dl.all) = 2
    /\ dl.dest = <<1, 2, 3>>

====
